---- MODULE Spec2Model ----
(***************************************************************************)
(* The append/read core of nibble's log (src/src/nibble/thelog.rs):        *)
(* EntryHeader framing, LogHead::append with its roll, Log::append with    *)
(* the liveness update, and the block-spanning decode get_ref/get_entry.   *)
(* The segment, the segment manager and copy_out live in other modules of  *)
(* the repository (segment.rs, memory.rs); they are modelled from the      *)
(* specification of their contracts.                                       *)
(***************************************************************************)
EXTENDS Integers, Sequences, FiniteSets, TLC

\* ---------------------------------------------------------------- bounds
NumThreads == 2
NumSegments == 2
MaxReclaims == 1
MaxRand == 1

\* ------------------------------------------------------------- constants
\* thelog.rs:33
NUM_LOG_HEADS == 1
\* size_of::<EntryHeader>(): two u32 fields, repr(C) (thelog.rs:44-47)
EntryHeaderSize == 8
\* size_of::<u64>(), the key width get_ref insists on (thelog.rs:353)
KeySize == 8
\* segment.rs (scaled down: a segment is four blocks of sixteen bytes)
BLOCK_SIZE == 16
SEGMENT_SIZE == 64
SegmentHeaderSize == 7

\* Option::None, for a head without a segment and a mutex without a holder;
\* segments and threads are numbered from 1.
None == 0

Threads == 1..NumThreads
Heads == 0..(NUM_LOG_HEADS - 1)
Segments == 1..NumSegments
BlocksPerSegment == SEGMENT_SIZE \div BLOCK_SIZE
NumBlocks == NumSegments * BlocksPerSegment
Addresses == 0..(NumBlocks * BLOCK_SIZE - 1)

VARIABLES
    segment,     \* LogHead.segment of each head: a segment or None
    lock,        \* the pl::Mutex around each LogHead: its holder or None
    segs,        \* each segment: allocated, closed, head (write cursor)
    mem,         \* the bytes of the block arena, by address
    closedPool,  \* the manager's list of closed segments, in hand-off order
    live,        \* the SegmentInfoTable: live bytes of each segment
    written,     \* history: the records written and not reclaimed, in order
    th,          \* each thread: position and locals of its current call
    reclaims,    \* how many segments the compactor has recycled
    probe,       \* decoder harness: the arguments handed to get_ref
    ref          \* decoder harness: what get_ref returned

vars == <<segment, lock, segs, mem, closedPool, live, written, th, reclaims,
          probe, ref>>

\* ------------------------------------------------------ object descriptors
\* An ObjDesc: a key of KeySize bytes and a value of datalen bytes.  The
\* bytes are told apart by `fill`, so that a read of the wrong place shows.
KeyBytes(d) == [i \in 1..d.keylen |-> (d.fill + 3 * i) % 256]
ValueBytes(d) == [i \in 1..d.datalen |-> (d.fill + d.datalen + i) % 256]

\* ObjDesc::len_with_header
desc_len_with_header(d) == EntryHeaderSize + d.keylen + d.datalen

\* The largest value that passes LogHead::append's size check, and the
\* smallest that does not.
MinDataLen == 3
MaxDataLen == SEGMENT_SIZE - SegmentHeaderSize - 1 - EntryHeaderSize - KeySize
DataLens == {MinDataLen, MaxDataLen, MaxDataLen + 1}

ObjDescs == { [keylen |-> KeySize, datalen |-> n, fill |-> 16 * n] : n \in DataLens }

\* ----------------------------------------------------------- entry header
\* A u32 as it lies in memory (little endian), and back.
U32Bytes(n) == << n % 256, (n \div 256) % 256, (n \div 65536) % 256,
                  (n \div 16777216) % 256 >>
U32Of(b) == b[1] + 256 * b[2] + 65536 * b[3] + 16777216 * b[4]

\* EntryHeader::new
EntryHeader_new(d) == [keylen |-> d.keylen, datalen |-> d.datalen]
\* EntryHeader::empty
EntryHeader_empty == [keylen |-> 0, datalen |-> 0]
\* EntryHeader::len_with_header
len_with_header(h) == (h.datalen + h.keylen) + EntryHeaderSize
\* the header as raw bytes (as_ptr) and a header read from raw bytes
HeaderBytes(h) == U32Bytes(h.keylen) \o U32Bytes(h.datalen)
HeaderOf(b) == [keylen |-> U32Of(SubSeq(b, 1, 4)), datalen |-> U32Of(SubSeq(b, 5, 8))]

\* | EntryHeader | Key bytes | Data bytes |
Frame(d) == HeaderBytes(EntryHeader_new(d)) \o KeyBytes(d) \o ValueBytes(d)

\* ------------------------------------------------- blocks and the manager
\* The blocks of a segment are not adjacent in memory: block k of segment s
\* is block k * NumSegments + s of the arena.
BlockList(s) == [k \in 1..BlocksPerSegment |-> (k - 1) * NumSegments + (s - 1)]
BlockAddr(b) == b * BLOCK_SIZE
\* SegmentManager::segment_of
segment_of(va) == ((va \div BLOCK_SIZE) % NumSegments) + 1
\* SegmentManager::block_of: the block's index in its segment and the list
block_of(va) ==
    [blk_idx |-> (va \div BLOCK_SIZE) \div NumSegments,
     list |-> BlockList(segment_of(va))]
\* The address of logical offset off of a block list.
AddrAt(list, off) == BlockAddr(list[(off \div BLOCK_SIZE) + 1]) + (off % BLOCK_SIZE)

\* What a faulting (panicking) copy or decode yields.
Fault == [ok |-> FALSE]

\* segment::copy_out: len bytes from logical offset `offset` of the block
\* list, block by block.  Running off the end of the list is a fault; the
\* walk marks it with a byte of -1.
RECURSIVE copy_walk(_, _, _, _, _)
copy_walk(m, list, k, off, len) ==
    IF len = 0 THEN << >>
    ELSE IF k > Len(list) THEN << 0 - 1 >>
    ELSE LET n == IF BLOCK_SIZE - off < len THEN BLOCK_SIZE - off ELSE len
         IN  [i \in 1..n |-> m[BlockAddr(list[k]) + off + i - 1]]
             \o copy_walk(m, list, k + 1, 0, len - n)

copy_out(m, list, offset, len) ==
    LET out == copy_walk(m, list, (offset \div BLOCK_SIZE) + 1, offset % BLOCK_SIZE, len)
    IN  IF Len(out) = len /\ \A i \in 1..len : out[i] >= 0
        THEN [ok |-> TRUE, bytes |-> out] ELSE Fault

\* Segment::append_safe: the memory after `bytes` were written at logical
\* offset `off` of segment s.
WriteBytes(m, s, off, bytes) ==
    [a \in Addresses |->
        LET b == a \div BLOCK_SIZE
            lo == (b \div NumSegments) * BLOCK_SIZE + (a % BLOCK_SIZE)
        IN  IF (b % NumSegments) + 1 = s /\ lo >= off /\ lo < off + Len(bytes)
            THEN bytes[lo - off + 1] ELSE m[a]]

\* ---------------------------------------------------------------- segment
FreshSegment == [allocated |-> FALSE, closed |-> FALSE, head |-> SegmentHeaderSize]
\* remaining capacity
seg_rem(sg) == SEGMENT_SIZE - sg.head
\* Segment::can_hold
can_hold(sg, d) == seg_rem(sg) >= desc_len_with_header(d)
\* Mutant: the write cursor is not advanced past the record.
Segment_append_StaleHead(s, d) ==
    IF segs[s].closed THEN [ok |-> FALSE, err |-> "SegmentClosed"]
    ELSE IF ~can_hold(segs[s], d) THEN [ok |-> FALSE, err |-> "SegmentFull"]
    ELSE [ok |-> TRUE, va |-> AddrAt(BlockList(s), segs[s].head),
          off |-> segs[s].head, head |-> segs[s].head]

\* Segment::append: Ok with the record's address, or why not
Segment_append(s, d) ==
    IF segs[s].closed THEN [ok |-> FALSE, err |-> "SegmentClosed"]
    ELSE IF ~can_hold(segs[s], d) THEN [ok |-> FALSE, err |-> "SegmentFull"]
    ELSE [ok |-> TRUE, va |-> AddrAt(BlockList(s), segs[s].head),
          off |-> segs[s].head,
          head |-> segs[s].head + desc_len_with_header(d)]
\* Segment::close
Segment_close(sg) == [sg EXCEPT !.closed = TRUE]
\* SegmentManager::alloc: the segments it may return; none when exhausted
FreeSegments == { s \in Segments : ~segs[s].allocated }

\* Mutant: the header is always read in place at the address, also when
\* it continues in the next block of the list.
get_ref_HeaderInPlace(m, list, idx, va) ==
    LET offset == va % BLOCK_SIZE
        blk_tail == BLOCK_SIZE - offset
        len == EntryHeaderSize
        href == HeaderOf([i \in 1..len |-> m[va + i - 1]])
        entry_len == len_with_header(href)
        nblks == IF entry_len > blk_tail
                 THEN 1 + (((entry_len - blk_tail) \div BLOCK_SIZE) + 1)
                 ELSE 1
    IN  IF ~((idx + nblks - 1) < Len(list)) THEN Fault
        ELSE [ok |-> TRUE, offset |-> offset, len |-> entry_len,
              keylen |-> href.keylen, datalen |-> href.datalen,
              copied |-> FALSE,
              blocks |-> SubSeq(list, idx + 1, idx + nblks)]

\* ----------------------------------------------------------------- get_ref
\* thelog.rs:337-373.  The header is read in place when it fits in the tail
\* of its block and copied out of the block list otherwise.  The slice
\* list[idx..idx+nblks] panics when it leaves the list (in a debug build
\* the assertion before it does).  The debug assertions on the key and
\* value lengths (353-356) hold of every record an append has framed.
get_ref(m, list, idx, va) ==
    LET offset == va % BLOCK_SIZE
        blk_tail == BLOCK_SIZE - offset
        len == EntryHeaderSize
        header == HeaderBytes(EntryHeader_empty)
        copy == copy_out(m, SubSeq(list, idx + 1, Len(list)), offset, len)
        hcopy == IF blk_tail >= len
                 THEN [ok |-> TRUE, bytes |-> [i \in 1..len |-> m[va + i - 1]]]
                 ELSE IF ~copy.ok THEN Fault
                 ELSE [ok |-> TRUE,
                       bytes |-> [i \in 1..Len(header) |->
                                    IF i <= len THEN copy.bytes[i] ELSE header[i]]]
    IN  IF ~hcopy.ok THEN Fault
        ELSE
        LET href == HeaderOf(hcopy.bytes)
            entry_len == len_with_header(href)
            nblks == IF entry_len > blk_tail
                     THEN 1 + (((entry_len - blk_tail) \div BLOCK_SIZE) + 1)
                     ELSE 1
        IN  IF ~((idx + nblks - 1) < Len(list)) THEN Fault
            ELSE [ok |-> TRUE, offset |-> offset, len |-> entry_len,
                  keylen |-> href.keylen, datalen |-> href.datalen,
                  copied |-> ~(blk_tail >= len),
                  blocks |-> SubSeq(list, idx + 1, idx + nblks)]

\* EntryReference::get_data
get_data(m, entry) ==
    copy_out(m, entry.blocks, (entry.offset + entry.len) - entry.datalen, entry.datalen)

\* Log::get_entry: the value's bytes, or Fault when decoding panics
get_entry(m, va) ==
    LET block == block_of(va)
        entry == get_ref(m, block.list, block.blk_idx, va)
    IN  IF ~entry.ok THEN Fault ELSE get_data(m, entry)


\* ------------------------------------------------------------------- state
NoDesc == [keylen |-> 0, datalen |-> 0, fill |-> 0]
IdleThread ==
    [pc |-> "idle", op |-> "none", x |-> 0, buf |-> NoDesc, roll |-> FALSE,
     va |-> 0, status |-> "none", out |-> Fault, sawNone |-> FALSE, nalloc |-> 0,
     got |-> None, nlock |-> 0]

\* Log::new: every head is new (no segment), nothing is allocated or written.
Init ==
    /\ segment = [h \in Heads |-> None]
    /\ lock = [h \in Heads |-> None]
    /\ segs = [s \in Segments |-> FreshSegment]
    /\ mem = [a \in Addresses |-> 0]
    /\ closedPool = << >>
    /\ live = [s \in Segments |-> 0]
    /\ written = << >>
    /\ th = [t \in Threads |-> IdleThread]
    /\ reclaims = 0
    /\ probe = [seg |-> 1, idx |-> 0, va |-> 0, keylen |-> 0, datalen |-> 0,
               done |-> TRUE]
    /\ ref = Fault

Harness == <<probe, ref>>
Unlock(x) == [lock EXCEPT ![x] = None]

\* ------------------------------------------------------------- Log::append
\* thelog.rs:243-246: a call of Log::append(buf) picks its head.
AppendBegin(t, d, r) ==
    /\ th[t].pc = "idle"
    /\ th' = [th EXCEPT ![t] = [IdleThread EXCEPT !.pc = "lock", !.op = "append",
                                      !.x = r % NUM_LOG_HEADS, !.buf = d]]
    /\ UNCHANGED <<segment, lock, segs, mem, closedPool, live, written, reclaims, Harness>>

\* Mutant: the head is entered without waiting for its mutex.
Lock_NoMutex(t) ==
    /\ th[t].pc = "lock"
    /\ lock' = [lock EXCEPT ![th[t].x] = t]
    /\ th' = [th EXCEPT ![t].pc = "decide", ![t].nlock = @ + 1]
    /\ UNCHANGED <<segment, segs, mem, closedPool, live, written, reclaims, Harness>>

\* thelog.rs:248: head.lock()
Lock(t) ==
    /\ th[t].pc = "lock"
    /\ lock[th[t].x] = None
    /\ lock' = [lock EXCEPT ![th[t].x] = t]
    /\ th' = [th EXCEPT ![t].pc = "decide", ![t].nlock = @ + 1]
    /\ UNCHANGED <<segment, segs, mem, closedPool, live, written, reclaims, Harness>>

\* Mutant: the roll decision looks only at whether the head has a segment,
\* not at whether the segment can hold the object.
Decide_NoCapacityCheck(t) ==
    LET x == th[t].x
        buf == th[t].buf
    IN
    /\ th[t].pc = "decide"
    /\ IF ~(desc_len_with_header(buf) < (SEGMENT_SIZE - SegmentHeaderSize))
       THEN /\ th' = [th EXCEPT ![t].pc = "panicked", ![t].status = "PanicObjectLarger"]
            /\ lock' = Unlock(x)
       ELSE LET roll == (segment[x] = None)
            IN  /\ th' = [th EXCEPT ![t].roll = roll,
                                    ![t].sawNone = (segment[x] = None),
                                    ![t].pc = IF roll THEN "roll" ELSE "write"]
                /\ UNCHANGED lock
    /\ UNCHANGED <<segment, segs, mem, closedPool, live, written, reclaims, Harness>>

\* Mutant: the head does not check the object's size before the roll
\* decision.
Decide_NoSizeCheck(t) ==
    LET x == th[t].x
        buf == th[t].buf
        roll == IF segment[x] = None THEN TRUE
                ELSE ~can_hold(segs[segment[x]], buf)
    IN
    /\ th[t].pc = "decide"
    /\ th' = [th EXCEPT ![t].roll = roll,
                         ![t].sawNone = (segment[x] = None),
                         ![t].pc = IF roll THEN "roll" ELSE "write"]
    /\ UNCHANGED <<segment, lock, segs, mem, closedPool, live, written, reclaims, Harness>>

\* thelog.rs:139-161: the size assertion, then the roll decision.  A failed
\* assertion unwinds, which drops the mutex guard and ends the thread.
Decide(t) ==
    LET x == th[t].x
        buf == th[t].buf
    IN
    /\ th[t].pc = "decide"
    /\ IF ~(desc_len_with_header(buf) < (SEGMENT_SIZE - SegmentHeaderSize))
       THEN /\ th' = [th EXCEPT ![t].pc = "panicked", ![t].status = "PanicObjectLarger"]
            /\ lock' = Unlock(x)
       ELSE LET roll == IF segment[x] = None THEN TRUE
                        ELSE ~can_hold(segs[segment[x]], buf)
            IN  /\ th' = [th EXCEPT ![t].roll = roll,
                                    ![t].sawNone = (segment[x] = None),
                                    ![t].pc = IF roll THEN "roll" ELSE "write"]
                /\ UNCHANGED lock
    /\ UNCHANGED <<segment, segs, mem, closedPool, live, written, reclaims, Harness>>

\* Mutant: the roll hands the segment over without closing it first.
RollClose_NoClose(t) ==
    LET x == th[t].x IN
    /\ th[t].pc = "roll"
    /\ IF segment[x] # None
       THEN th' = [th EXCEPT ![t].pc = "add_closed"]
       ELSE th' = [th EXCEPT ![t].pc = "replace"]
    /\ UNCHANGED <<segment, lock, segs, mem, closedPool, live, written, reclaims, Harness>>

\* thelog.rs:202-205: LogHead::roll closes the current segment, if any.
RollClose(t) ==
    LET x == th[t].x IN
    /\ th[t].pc = "roll"
    /\ IF segment[x] # None
       THEN /\ segs' = [segs EXCEPT ![segment[x]] = Segment_close(@)]
            /\ th' = [th EXCEPT ![t].pc = "add_closed"]
       ELSE /\ th' = [th EXCEPT ![t].pc = "replace"]
            /\ UNCHANGED segs
    /\ UNCHANGED <<segment, lock, mem, closedPool, live, written, reclaims, Harness>>

\* thelog.rs:195-199 (called at 206): LogHead::add_closed hands the segment
\* to the manager's closed list.
AddClosed(t) ==
    LET x == th[t].x IN
    /\ th[t].pc = "add_closed"
    /\ closedPool' = IF segment[x] # None THEN Append(closedPool, segment[x])
                     ELSE closedPool
    /\ th' = [th EXCEPT ![t].pc = "replace"]
    /\ UNCHANGED <<segment, lock, segs, mem, live, written, reclaims, Harness>>

\* Mutant: the head's segment is replaced only when the allocator returned
\* one; after a failed allocation the head keeps the segment it closed.
Replace_KeepOnFailure(t) ==
    LET x == th[t].x IN
    /\ th[t].pc = "replace"
    /\ IF FreeSegments = {}
       THEN /\ th' = [th EXCEPT ![t].pc = "idle", ![t].status = "OutOfMemory",
                                ![t].nalloc = @ + 1]
            /\ lock' = Unlock(x)
            /\ UNCHANGED <<segs, segment>>
       ELSE \E s \in FreeSegments :
            /\ segment' = [segment EXCEPT ![x] = s]
            /\ segs' = [segs EXCEPT ![s] = [FreshSegment EXCEPT !.allocated = TRUE]]
            /\ th' = [th EXCEPT ![t].pc = "write", ![t].nalloc = @ + 1, ![t].got = s]
            /\ UNCHANGED lock
    /\ UNCHANGED <<mem, closedPool, live, written, reclaims, Harness>>

\* Mutant: when the allocator has nothing left the head falls back to the
\* segment it has just closed and opens it again.
Replace_ReopenOnFailure(t) ==
    LET x == th[t].x IN
    /\ th[t].pc = "replace"
    /\ IF FreeSegments = {}
       THEN /\ segs' = IF segment[x] = None THEN segs
                        ELSE [segs EXCEPT ![segment[x]].closed = FALSE]
            /\ th' = [th EXCEPT ![t].pc = "idle", ![t].status = "OutOfMemory",
                                 ![t].nalloc = @ + 1]
            /\ lock' = Unlock(x)
            /\ UNCHANGED segment
       ELSE \E s \in FreeSegments :
            /\ segment' = [segment EXCEPT ![x] = s]
            /\ segs' = [segs EXCEPT ![s] = [FreshSegment EXCEPT !.allocated = TRUE]]
            /\ th' = [th EXCEPT ![t].pc = "write", ![t].nalloc = @ + 1, ![t].got = s]
            /\ UNCHANGED lock
    /\ UNCHANGED <<mem, closedPool, live, written, reclaims, Harness>>

\* Mutant: after a failed allocation the append does not return but goes
\* for a head again.
Replace_RetryOnFailure(t) ==
    LET x == th[t].x IN
    /\ th[t].pc = "replace"
    /\ IF FreeSegments = {}
       THEN /\ segment' = [segment EXCEPT ![x] = None]
            /\ th' = [th EXCEPT ![t].pc = "lock", ![t].nalloc = 0, ![t].nlock = 0]
            /\ lock' = Unlock(x)
            /\ UNCHANGED segs
       ELSE \E s \in FreeSegments :
            /\ segment' = [segment EXCEPT ![x] = s]
            /\ segs' = [segs EXCEPT ![s] = [FreshSegment EXCEPT !.allocated = TRUE]]
            /\ th' = [th EXCEPT ![t].pc = "write", ![t].nalloc = @ + 1, ![t].got = s]
            /\ UNCHANGED lock
    /\ UNCHANGED <<mem, closedPool, live, written, reclaims, Harness>>

\* thelog.rs:184-190 (called at 208), and 165-167: LogHead::replace takes
\* what the allocator returns, a segment or None; on None the append
\* returns Err(OutOfMemory) through Log::append (249).
Replace(t) ==
    LET x == th[t].x IN
    /\ th[t].pc = "replace"
    /\ IF FreeSegments = {}
       THEN /\ segment' = [segment EXCEPT ![x] = None]
            /\ th' = [th EXCEPT ![t].pc = "idle", ![t].status = "OutOfMemory",
                                ![t].nalloc = @ + 1]
            /\ lock' = Unlock(x)
            /\ UNCHANGED segs
       ELSE \E s \in FreeSegments :
            /\ segment' = [segment EXCEPT ![x] = s]
            /\ segs' = [segs EXCEPT ![s] = [FreshSegment EXCEPT !.allocated = TRUE]]
            /\ th' = [th EXCEPT ![t].pc = "write", ![t].nalloc = @ + 1, ![t].got = s]
            /\ UNCHANGED lock
    /\ UNCHANGED <<mem, closedPool, live, written, reclaims, Harness>>

\* Mutant: a successful write keeps the head's mutex, so that the liveness
\* update falls inside the critical section.
Write_KeepLock(t) ==
    LET x == th[t].x
        buf == th[t].buf
    IN
    /\ th[t].pc = "write"
    /\ IF segment[x] = None
       THEN /\ th' = [th EXCEPT ![t].pc = "panicked", ![t].status = "PanicUnwrapNone"]
            /\ lock' = Unlock(x)
            /\ UNCHANGED <<segs, mem, written>>
       ELSE LET s == segment[x]
                res == Segment_append(s, buf)
            IN  IF ~res.ok
                THEN /\ th' = [th EXCEPT ![t].pc = "panicked",
                                        ![t].status = "PanicAppendFailed"]
                     /\ lock' = Unlock(x)
                     /\ UNCHANGED <<segs, mem, written>>
                ELSE /\ mem' = WriteBytes(mem, s, res.off, Frame(buf))
                     /\ segs' = [segs EXCEPT ![s].head = res.head]
                     /\ written' = Append(written,
                            [va |-> res.va, seg |-> s, off |-> res.off, buf |-> buf])
                     /\ th' = [th EXCEPT ![t].pc = "incr_live", ![t].va = res.va]
                     /\ UNCHANGED lock
    /\ UNCHANGED <<segment, closedPool, live, reclaims, Harness>>

\* thelog.rs:170-176: the write into the head's segment; the guard of the
\* head's mutex is dropped when LogHead::append returns or unwinds.
Write(t) ==
    LET x == th[t].x
        buf == th[t].buf
    IN
    /\ th[t].pc = "write"
    /\ IF segment[x] = None
       THEN /\ th' = [th EXCEPT ![t].pc = "panicked", ![t].status = "PanicUnwrapNone"]
            /\ UNCHANGED <<segs, mem, written>>
       ELSE LET s == segment[x]
                res == Segment_append(s, buf)
            IN  IF ~res.ok
                THEN /\ th' = [th EXCEPT ![t].pc = "panicked",
                                        ![t].status = "PanicAppendFailed"]
                     /\ UNCHANGED <<segs, mem, written>>
                ELSE /\ mem' = WriteBytes(mem, s, res.off, Frame(buf))
                     /\ segs' = [segs EXCEPT ![s].head = res.head]
                     /\ written' = Append(written,
                            [va |-> res.va, seg |-> s, off |-> res.off, buf |-> buf])
                     /\ th' = [th EXCEPT ![t].pc = "incr_live", ![t].va = res.va]
    /\ lock' = Unlock(x)
    /\ UNCHANGED <<segment, closedPool, live, reclaims, Harness>>

\* Mutant: the counter grows by the object's length, without the header.
IncrLive_ObjectLength(t) ==
    LET idx == segment_of(th[t].va)
        len == th[t].buf.keylen + th[t].buf.datalen
    IN
    /\ th[t].pc = "incr_live"
    /\ live' = [live EXCEPT ![idx] = @ + len]
    /\ th' = [th EXCEPT ![t].pc = "idle", ![t].status = "Ok"]
    /\ UNCHANGED <<segment, lock, segs, mem, closedPool, written, reclaims, Harness>>

\* thelog.rs:252-259: the segment info table is updated, Ok(va) returned.
IncrLive(t) ==
    LET idx == segment_of(th[t].va)
        len == desc_len_with_header(th[t].buf)
    IN
    /\ th[t].pc = "incr_live"
    /\ live' = [live EXCEPT ![idx] = @ + len]
    /\ th' = [th EXCEPT ![t].pc = "idle", ![t].status = "Ok"]
    /\ UNCHANGED <<segment, lock, segs, mem, closedPool, written, reclaims, Harness>>

\* ---------------------------------------------------------- Log::get_entry
\* thelog.rs:264-276, for an address that an append has returned and whose
\* segment has not been reclaimed.  A panic of the decoder ends the thread.
GetEntry(t, i) ==
    LET va == written[i].va
        out == get_entry(mem, va)
    IN
    /\ th[t].pc = "idle"
    /\ \A u \in Threads : ~(th[u].pc = "incr_live" /\ th[u].va = va)
    /\ th' = [th EXCEPT ![t] = [IdleThread EXCEPT !.op = "get_entry", !.va = va,
                  !.buf = written[i].buf, !.out = out,
                  !.pc = IF out.ok THEN "idle" ELSE "panicked",
                  !.status = IF out.ok THEN "Ok" ELSE "PanicDecode"]]
    /\ UNCHANGED <<segment, lock, segs, mem, closedPool, live, written, reclaims, Harness>>

\* --------------------------------------------------------------- compactor
\* The external reclamation: the oldest closed segment is recycled and can
\* be allocated again.  Its records are gone; its bytes stay as they were.
Reclaim ==
    /\ reclaims < MaxReclaims
    /\ closedPool # << >>
    /\ LET s == Head(closedPool) IN
        /\ segs' = [segs EXCEPT ![s] = FreshSegment]
        /\ live' = [live EXCEPT ![s] = 0]
        /\ written' = SelectSeq(written, LAMBDA r : r.seg # s)
    /\ closedPool' = Tail(closedPool)
    /\ reclaims' = reclaims + 1
    /\ UNCHANGED <<segment, lock, mem, th, Harness>>

Next ==
    \/ \E t \in Threads, d \in ObjDescs, r \in 0..MaxRand : AppendBegin(t, d, r)
    \/ \E t \in Threads : Lock(t)
    \/ \E t \in Threads : Decide(t)
    \/ \E t \in Threads : RollClose(t)
    \/ \E t \in Threads : AddClosed(t)
    \/ \E t \in Threads : Replace(t)
    \/ \E t \in Threads : Write(t)
    \/ \E t \in Threads : IncrLive(t)
    \/ \E t \in Threads, i \in 1..Len(written) : GetEntry(t, i)
    \/ Reclaim

Spec == Init /\ [][Next]_vars

\* ---------------------------------------------------------- decoder harness
\* get_ref as a function of its arguments: one framed record, of any value
\* length, lies at any offset of any block of a segment's block list, as
\* Segment::append would have put it, and get_ref is applied to its address.
\* The record starts where an append can have put one: right after the
\* segment header, or after at least one earlier record.
MinFrame == EntryHeaderSize + KeySize + 1

InitRef ==
    /\ segment = [h \in Heads |-> None]
    /\ lock = [h \in Heads |-> None]
    /\ segs = [s \in Segments |-> FreshSegment]
    /\ closedPool = << >>
    /\ live = [s \in Segments |-> 0]
    /\ written = << >>
    /\ th = [t \in Threads |-> IdleThread]
    /\ reclaims = 0
    /\ ref = Fault
    /\ \E s \in Segments, idx \in 0..(BlocksPerSegment - 1),
          off \in 0..(BLOCK_SIZE - 1), n \in 1..MaxDataLen :
        LET d == [keylen |-> KeySize, datalen |-> n, fill |-> 16 * n]
            lo == idx * BLOCK_SIZE + off
        IN  /\ lo = SegmentHeaderSize \/ lo >= SegmentHeaderSize + MinFrame
            /\ lo + desc_len_with_header(d) <= SEGMENT_SIZE
            /\ mem = WriteBytes([a \in Addresses |-> 0], s, lo, Frame(d))
            /\ probe = [seg |-> s, idx |-> idx, va |-> AddrAt(BlockList(s), lo),
                        keylen |-> d.keylen, datalen |-> d.datalen,
                        done |-> FALSE]

\* thelog.rs:272: get_ref(list, block.blk_idx(), va)
DecodeRef ==
    /\ ~probe.done
    /\ ref' = get_ref(mem, BlockList(probe.seg), probe.idx, probe.va)
    /\ probe' = [probe EXCEPT !.done = TRUE]
    /\ UNCHANGED <<segment, lock, segs, mem, closedPool, live, written, th, reclaims>>

NextRef == DecodeRef

SpecRef == InitRef /\ [][NextRef]_vars


\* ================================================================== claims
Done(t) == th[t].pc \in {"idle", "panicked"}
Appended(t) == th[t].op = "append" /\ Done(t)
WellFormed(d) == desc_len_with_header(d) < SEGMENT_SIZE - SegmentHeaderSize
InCritical(t) == th[t].pc \in {"decide", "roll", "add_closed", "replace", "write"}
RecordsOf(s) == SelectSeq(written, LAMBDA r : r.seg = s)
RECURSIVE FramedSum(_)
FramedSum(rs) ==
    IF rs = << >> THEN 0 ELSE desc_len_with_header(Head(rs).buf) + FramedSum(Tail(rs))
CeilDiv(a, b) == (a + b - 1) \div b

\* C1: every get_entry of an address that append returned, whose segment was
\* not reclaimed, returns exactly the value bytes that were appended.
C1_RoundTrip ==
    \A t \in Threads :
        (th[t].op = "get_entry" /\ Done(t)) =>
            /\ th[t].out.ok
            /\ th[t].out.bytes = ValueBytes(th[t].buf)
            /\ Len(th[t].out.bytes) = th[t].buf.datalen

\* What does hold of get_entry: when the decoder does not panic, the bytes
\* are the value's.
RoundTripWhenDecoded ==
    \A t \in Threads :
        (th[t].op = "get_entry" /\ Done(t) /\ th[t].out.ok) =>
            th[t].out.bytes = ValueBytes(th[t].buf)

\* C2: an append of a well-formed descriptor ends in Ok or in
\* Err(OutOfMemory), never in another error or a panic.
C2_OkOrOutOfMemory ==
    \A t \in Threads :
        (Appended(t) /\ WellFormed(th[t].buf)) =>
            /\ th[t].pc = "idle"
            /\ th[t].status \in {"Ok", "OutOfMemory"}

C2_Witness ==
    \E t1, t2 \in Threads :
        /\ Appended(t1) /\ th[t1].status = "Ok" /\ WellFormed(th[t1].buf)
        /\ Appended(t2) /\ th[t2].status = "OutOfMemory" /\ WellFormed(th[t2].buf)

\* C3: an append whose framed length is SEGMENT_SIZE - segment header size
\* or more returns the error ObjectTooBig to its caller, and one of one byte
\* less that finds a fresh segment succeeds.
C3_ObjectTooBigReturned ==
    \A t \in Threads :
        Appended(t) =>
            /\ ~WellFormed(th[t].buf) =>
                  (th[t].pc = "idle" /\ th[t].status = "ObjectTooBig")
            /\ (th[t].buf.datalen = MaxDataLen /\ th[t].got # None) =>
                  th[t].status = "Ok"

\* C4: the records of a segment occupy pairwise disjoint byte ranges, and
\* each lies whole in the segment's memory as it was framed.
C4_NoOverlap ==
    /\ \A i, j \in 1..Len(written) :
          (i < j /\ written[i].seg = written[j].seg) =>
              \/ written[i].off + desc_len_with_header(written[i].buf) <= written[j].off
              \/ written[j].off + desc_len_with_header(written[j].buf) <= written[i].off
    /\ \A i \in 1..Len(written) :
          LET r == written[i]
              c == copy_out(mem, BlockList(r.seg), r.off, desc_len_with_header(r.buf))
          IN  c.ok /\ c.bytes = Frame(r.buf)
                   /\ r.va = AddrAt(BlockList(r.seg), r.off)

C4_Witness ==
    \E i, j \in 1..Len(written) :
        /\ i < j /\ written[i].seg = written[j].seg
        /\ \E t1, t2 \in Threads : t1 # t2 /\ InCritical(t1) /\ th[t2].pc = "lock"

\* C5: no two threads are inside the decide/roll/write sequence of the
\* same head at once, and whoever is inside holds the head's mutex.
C5_MutualExclusion ==
    /\ \A t1, t2 \in Threads :
          (t1 # t2 /\ InCritical(t1) /\ InCritical(t2)) => th[t1].x # th[t2].x
    /\ \A t \in Threads : InCritical(t) => lock[th[t].x] = t

C5_Witness ==
    \E t1, t2 \in Threads :
        /\ t1 # t2 /\ th[t1].x = th[t2].x
        /\ th[t1].pc = "write" /\ th[t2].pc = "lock"

\* C6: whenever the write of LogHead::append is reached, the head's segment
\* is there, open and has room for the record, so the write succeeds and the
\* "has space but append failed" panic never happens.
C6_WriteNeverFails ==
    \A t \in Threads :
        /\ th[t].status \notin {"PanicAppendFailed", "PanicUnwrapNone"}
        /\ th[t].pc = "write" =>
              /\ segment[th[t].x] # None
              /\ Segment_append(segment[th[t].x], th[t].buf).ok

C6_Witness ==
    \E t1, t2 \in Threads :
        /\ th[t1].pc = "write" /\ ~th[t1].roll /\ segs[segment[th[t1].x]].head > SegmentHeaderSize
        /\ Appended(t2) /\ th[t2].status = "Ok" /\ th[t2].roll /\ ~th[t2].sawNone

\* C7: once every append has returned (and no segment was recycled), the
\* live-byte counter of each segment is the sum of the framed lengths of
\* the records written into it.
C7_LiveEqualsWritten ==
    ((\A t \in Threads : Done(t)) /\ reclaims = 0) =>
        \A s \in Segments : live[s] = FramedSum(RecordsOf(s))

C7_Witness ==
    /\ \A t \in Threads : Done(t)
    /\ reclaims = 0
    /\ \E s1, s2 \in Segments :
          s1 # s2 /\ Len(RecordsOf(s1)) >= 2 /\ Len(RecordsOf(s2)) >= 1

\* C8: get_ref's reference spans 1 block when the framed record fits in the
\* tail of its first block, and ceil((framed - tail) / BLOCK_SIZE) + 1
\* blocks otherwise.
C8_BlockCount ==
    (probe.done /\ ref.ok) =>
        LET tail == BLOCK_SIZE - (probe.va % BLOCK_SIZE)
        IN  Len(ref.blocks) = IF ref.len <= tail THEN 1
                              ELSE CeilDiv(ref.len - tail, BLOCK_SIZE) + 1

\* C9: while a head's mutex is free, the head has no segment or an open one.
C9_HeadSegmentOpen ==
    \A h \in Heads :
        lock[h] = None =>
            \/ segment[h] = None
            \/ segs[segment[h]].allocated /\ ~segs[segment[h]].closed

C9_Witness ==
    \E h \in Heads, t \in Threads :
        /\ lock[h] = None /\ segment[h] = None
        /\ Appended(t) /\ th[t].x = h /\ th[t].status = "OutOfMemory" /\ ~th[t].sawNone
        /\ \E i \in 1..Len(closedPool) : segs[closedPool[i]].closed

\* C10: a roll whose allocation fails returns OutOfMemory and leaves the head
\* without a segment; an append that finds the head without a segment asks
\* the allocator exactly once, fails with OutOfMemory when it gets none and
\* succeeds, leaving the head with the new segment, when it gets one.
C10_Exhausted ==
    /\ [](\A t \in Threads :
            (Appended(t) /\ th[t].sawNone) =>
                /\ th[t].nalloc = 1
                /\ th[t].got = None => th[t].status = "OutOfMemory"
                /\ th[t].got # None => th[t].status = "Ok")
    /\ [][\A t \in Threads :
            (th[t].pc = "replace" /\ th'[t].pc # "replace") =>
                IF FreeSegments = {}
                THEN /\ th'[t].pc = "idle" /\ th'[t].status = "OutOfMemory"
                     /\ segment'[th[t].x] = None
                ELSE /\ th'[t].pc = "write"
                     /\ segment'[th[t].x] \in FreeSegments]_vars

\* The head was exhausted, one append found it so and failed again, and
\* after a segment was recycled another append found it so and succeeded.
C10_Witness ==
    \E t1, t2 \in Threads :
        /\ Appended(t1) /\ th[t1].sawNone /\ th[t1].status = "OutOfMemory"
        /\ Appended(t2) /\ th[t2].sawNone /\ th[t2].status = "Ok"
        /\ segment[th[t2].x] = th[t2].got
        /\ reclaims >= 1
        /\ Len(closedPool) + reclaims >= NumSegments

\* C11: an append whose head fails returns the failure at once: it has
\* locked one head once and asked for one segment, it does not go for a
\* head again, and the live counters are as they were; the counters change
\* only at the end of a successful append (or when a segment is recycled).
C11_FailureReturned ==
    /\ [](\A t \in Threads :
            (Appended(t) /\ th[t].status = "OutOfMemory") =>
                /\ th[t].nlock = 1 /\ th[t].nalloc = 1
                /\ th[t].pc = "idle" /\ th[t].va = 0)
    /\ [][\A t \in Threads :
            (th[t].pc = "replace" /\ FreeSegments = {} /\ th'[t] # th[t]) =>
                /\ th'[t].pc = "idle" /\ th'[t].status = "OutOfMemory"
                /\ th'[t].x = th[t].x /\ th'[t].nlock = 1
                /\ live' = live]_vars
    /\ [][live' # live =>
            \/ reclaims' # reclaims
            \/ \E t \in Threads :
                  th[t].pc = "incr_live" /\ th'[t].pc = "idle" /\ th'[t].status = "Ok"]_vars

C11_Witness ==
    \E t \in Threads, s \in Segments :
        /\ Appended(t) /\ th[t].status = "OutOfMemory" /\ th[t].nlock = 1
        /\ live[s] > 0 /\ FreeSegments = {}

\* thelog.rs:391-411 (log_alloc_until_full): callers that do nothing but
\* append objects that pass the size assertion, with no reclamation, and
\* that keep running.
NextFill ==
    \E t \in Threads :
        \/ \E d \in {o \in ObjDescs : WellFormed(o)}, r \in 0..MaxRand : AppendBegin(t, d, r)
        \/ Lock(t)
        \/ Decide(t)
        \/ RollClose(t)
        \/ AddClosed(t)
        \/ Replace(t)
        \/ Write(t)
        \/ IncrLive(t)

SpecFill == Init /\ [][NextFill]_vars /\ WF_vars(NextFill)

\* C12: with a finite pool and no reclamation, callers that keep appending
\* well-formed objects eventually get OutOfMemory, and the number of
\* appends that succeeded is bounded by the capacity of the pool.
C12_FillTerminates ==
    /\ <>(\E t \in Threads : Appended(t) /\ th[t].status = "OutOfMemory")
    /\ [](Len(written) * MinFrame <= NumSegments * (SEGMENT_SIZE - SegmentHeaderSize))

C12_Witness ==
    \E t \in Threads :
        /\ Appended(t) /\ th[t].status = "OutOfMemory"
        /\ reclaims = 0 /\ Len(written) >= NumSegments
        /\ \A s \in Segments : segs[s].allocated /\ RecordsOf(s) # <<>>

\* C13: a segment that a roll has closed is frozen: while it is not
\* recycled, no step changes its cursor, its closed flag, its records or
\* its bytes, whichever thread and head takes the step.
C13_ClosedFrozen ==
    [][\A s \in Segments :
        (segs[s].closed /\ reclaims' = reclaims) =>
            /\ segs'[s] = segs[s]
            /\ written' # written => RecordsOf(s)' = RecordsOf(s)
            /\ mem' # mem =>
                  \A off \in 0..(SEGMENT_SIZE - 1) :
                      mem'[AddrAt(BlockList(s), off)] = mem[AddrAt(BlockList(s), off)]]_vars

C13_Witness ==
    \E s \in Segments :
        /\ segs[s].closed /\ RecordsOf(s) # << >>
        /\ written[Len(written)].seg # s
        /\ segs[written[Len(written)].seg].head > SegmentHeaderSize

\* C14: within one segment the records lie in the order in which their
\* appends took the head's lock: a later append starts at or after the end
\* of every earlier one (so its address is strictly greater), the cursor
\* of a segment never moves back, and bytes once written stay as written.
C14_AddressesIncrease ==
    /\ [](\A i, j \in 1..Len(written) :
            (i < j /\ written[i].seg = written[j].seg) =>
                /\ written[i].off + desc_len_with_header(written[i].buf) <= written[j].off
                /\ written[i].va < written[j].va)
    /\ [][\A s \in Segments :
            (segs[s].allocated /\ reclaims' = reclaims) =>
                /\ segs'[s].head >= segs[s].head
                /\ mem' # mem =>
                      \A off \in SegmentHeaderSize..(segs[s].head - 1) :
                          mem'[AddrAt(BlockList(s), off)] = mem[AddrAt(BlockList(s), off)]]_vars

C14_Witness ==
    \E i, j \in 1..Len(written) :
        /\ i < j /\ written[i].seg = written[j].seg
        /\ written[i].va < written[j].va
        /\ block_of(written[i].va) # block_of(written[j].va)
        /\ \E t, u \in Threads :
              /\ t # u /\ Appended(t) /\ Appended(u)
              /\ th[t].va = written[i].va /\ th[u].va = written[j].va

\* C15: the liveness update of a record comes after its write and after
\* the head's mutex is released: a caller about to update no longer holds
\* the mutex and its record is already in the segment, and (while nothing
\* is recycled) a segment's live counter is never more than the framed
\* lengths of the records written to it.
C15_LiveAfterWrite ==
    /\ \A t \in Threads :
          th[t].pc = "incr_live" =>
              /\ lock[th[t].x] # t
              /\ reclaims = 0 =>
                    \E i \in 1..Len(written) :
                        /\ written[i].va = th[t].va
                        /\ written[i].buf = th[t].buf
    /\ reclaims = 0 =>
          \A s \in Segments : live[s] <= FramedSum(RecordsOf(s))

\* Another append through the same head has written, updated and returned
\* while the first record's update is still outstanding.
C15_Witness ==
    \E t, u \in Threads, i, j \in 1..Len(written) :
        /\ t # u /\ i < j /\ reclaims = 0
        /\ th[t].pc = "incr_live" /\ th[t].va = written[i].va
        /\ Appended(u) /\ th[u].status = "Ok" /\ th[u].va = written[j].va
        /\ th[u].x = th[t].x /\ written[i].seg = written[j].seg
        /\ live[written[i].seg] < FramedSum(RecordsOf(written[i].seg))

InClosedPool(s) == \E i \in 1..Len(closedPool) : closedPool[i] = s

\* C16: a roll closes the head's segment, then hands it to the closed pool,
\* then asks the allocator, all under the head's mutex. A segment is in
\* the closed pool at most once and only when closed; the hand-off is done
\* by the time the allocator is asked, whether or not it has a segment.
C16_RollOrder ==
    /\ [](/\ \A i, j \in 1..Len(closedPool) : i # j => closedPool[i] # closedPool[j]
          /\ \A i \in 1..Len(closedPool) : segs[closedPool[i]].closed
          /\ \A t \in Threads :
                /\ th[t].pc = "add_closed" =>
                      /\ lock[th[t].x] = t
                      /\ segment[th[t].x] # None
                      /\ segs[segment[th[t].x]].closed
                      /\ ~InClosedPool(segment[th[t].x])
                /\ th[t].pc = "replace" =>
                      /\ lock[th[t].x] = t
                      /\ th[t].sawNone <=> segment[th[t].x] = None
                      /\ ~th[t].sawNone =>
                            \/ InClosedPool(segment[th[t].x])
                            \/ ~segs[segment[th[t].x]].allocated)
    /\ [][closedPool' # closedPool =>
            \/ reclaims' # reclaims
            \/ \E t \in Threads :
                  /\ th[t].pc = "add_closed" /\ th'[t].pc = "replace"
                  /\ closedPool' = Append(closedPool, segment[th[t].x])]_vars
    /\ [][\A s \in Segments :
            (~segs[s].allocated /\ segs'[s].allocated) =>
                \E t \in Threads :
                    /\ th[t].pc = "replace" /\ lock[th[t].x] = t
                    /\ th'[t].got = s /\ segment'[th[t].x] = s]_vars

C16_Witness ==
    \E t \in Threads :
        /\ th[t].pc = "replace" /\ ~th[t].sawNone /\ FreeSegments = {}
        /\ Len(closedPool) >= 1
        /\ segment[th[t].x] = closedPool[Len(closedPool)]
        /\ segs[segment[th[t].x]].closed

\* C17: the size check comes first in the head's append: an append of an
\* object that does not pass it never gets to a roll, an allocation or a
\* write, none of its steps changes a head's segment, a segment, the
\* memory, the closed pool, the live counters or the records, and it
\* leaves the head's mutex free for the other callers.
C17_TooBigNoEffect ==
    /\ [](\A t \in Threads :
            (th[t].op = "append" /\ ~WellFormed(th[t].buf)) =>
                /\ th[t].pc \in {"lock", "decide", "panicked"}
                /\ th[t].nalloc = 0 /\ th[t].got = None /\ th[t].va = 0
                /\ th[t].pc = "panicked" =>
                      th[t].status = "PanicObjectLarger" /\ lock[th[t].x] # t)
    /\ [][\A t \in Threads :
            (th'[t] # th[t] /\ th'[t].op = "append" /\ ~WellFormed(th'[t].buf)) =>
                /\ UNCHANGED <<segment, segs, mem, closedPool, live, written>>
                /\ th[t].pc = "decide" =>
                      th'[t].pc = "panicked" /\ lock'[th[t].x] = None]_vars

\* After a caller's oversized append another caller holds the same head's
\* mutex and is at its write into a segment that already has records.
C17_Witness ==
    \E t, u \in Threads :
        /\ t # u /\ th[t].status = "PanicObjectLarger" /\ th[t].pc = "panicked"
        /\ th[u].x = th[t].x /\ th[u].pc = "write" /\ lock[th[u].x] = u
        /\ segment[th[u].x] # None
        /\ RecordsOf(segment[th[u].x]) # << >>

\* C18: the key and value lengths of the reference that get_ref returns
\* are those of the header written at the address, whether the header
\* lies in the first block (read in place) or continues in the next one
\* (copied into an empty header); the copy is made exactly when fewer
\* than a header's bytes are left in the first block.
C18_HeaderLengths ==
    (probe.done /\ ref.ok) =>
        LET tail == BLOCK_SIZE - (probe.va % BLOCK_SIZE)
        IN  /\ ref.keylen = probe.keylen
            /\ ref.datalen = probe.datalen
            /\ ref.len = EntryHeaderSize + probe.keylen + probe.datalen
            /\ ref.copied <=> tail < EntryHeaderSize

C18_Witness ==
    /\ probe.done /\ ref.ok /\ ref.copied
    /\ BLOCK_SIZE - (probe.va % BLOCK_SIZE) < EntryHeaderSize
    /\ ref.keylen = KeySize /\ ref.datalen = probe.datalen /\ ref.datalen > 1
    /\ Len(ref.blocks) >= 2

\* C19: for a record that lies inside the block list, get_ref's slice
\* list[idx .. idx+nblks] stays inside the list and decoding does not
\* fault, also when the record ends at the end of the list's last block.
C19_SliceInside ==
    probe.done =>
        /\ ref.ok
        /\ probe.idx + Len(ref.blocks) - 1 < Len(BlockList(probe.seg))

\* Segments the allocator has returned so far, and segments handed to the
\* closed pool so far; a recycled segment was allocated and handed over.
NumAllocations == Cardinality({s \in Segments : segs[s].allocated}) + reclaims
NumHandOffs == Len(closedPool) + reclaims
HeldBy(s) == {h \in Heads : segment[h] = s}

\* C20: whenever no head's mutex is held, every allocated segment is either
\* the open current segment of exactly one head or closed and in the closed
\* pool, no segment is the current segment of two heads, and the number of
\* allocations is the number of held segments plus the number of hand-offs.
C20_NoSegmentLost ==
    (\A h \in Heads : lock[h] = None) =>
        /\ \A s \in Segments :
              segs[s].allocated =>
                  \/ ~segs[s].closed /\ Cardinality(HeldBy(s)) = 1 /\ ~InClosedPool(s)
                  \/ segs[s].closed /\ HeldBy(s) = {} /\ InClosedPool(s)
        /\ \A h \in Heads :
              segment[h] # None =>
                  /\ segs[segment[h]].allocated
                  /\ \A g \in Heads \ {h} : segment[g] # segment[h]
        /\ NumAllocations =
              Cardinality({h \in Heads : segment[h] # None}) + NumHandOffs

C20_Witness ==
    /\ \A h \in Heads : lock[h] = None
    /\ \A t \in Threads : th[t].pc = "idle"
    /\ \E h \in Heads :
          /\ segment[h] # None /\ ~segs[segment[h]].closed
          /\ RecordsOf(segment[h]) # << >>
    /\ Len(closedPool) >= 1 /\ reclaims >= 1
    /\ NumAllocations > NumSegments

====
